---- MODULE Spec2Model ----
(***************************************************************************)
(* Enterprise-OT-Sentinel: the agent orchestration kernel                  *)
(* (services/agentOrchestrator.ts) and the edge playback / uplink engine   *)
(* (services/edgeService.ts, services/simulatedData.ts).                   *)
(*                                                                         *)
(* JavaScript runs each callback to completion: a call of an async         *)
(* function runs synchronously up to its first await, and its              *)
(* continuation runs later as one step.  Every action below is one such    *)
(* run-to-completion step.                                                 *)
(***************************************************************************)
EXTENDS Integers, Sequences, FiniteSets, TLC

\* ------------------------------------------------------------------ bounds
\* startSession calls and processApproval calls a behaviour may make
MaxSessions == 2
MaxCalls == 4
\* ticks of the device loop between two mode switches
MaxTicks == 62
\* subscribe calls a behaviour may make
MaxSubs == 2
\* longest message list handed to pruneContext, and the first id of a list
MaxMessages == 26
MaxFirstId == 4

\* ------------------------------------------------------- program constants
PruneThreshold == 20
PruneKeepLast == 10

VARIABLES
  \* --- AgentOrchestratorService
  session,      \* this.session : ResearchSession
  traces,       \* this.obs.traces : AgentTrace[]
  pending,      \* processApproval calls suspended at their await
  nextMsgId,    \* ids handed out by crypto.randomUUID() for messages
  nSessions,    \* startSession calls made
  nCalls,       \* processApproval calls made
  \* --- observation of the orchestrator's callers (history)
  lastCall,     \* the call that completed last and what it returned
  returnTick,   \* flips whenever a call returns to its caller
  agentRuns,    \* sub-agent invocations made on behalf of the current session
  ownDone,      \* a processApproval on a message of the current session has completed
  rejected      \* a processApproval(id, false) was processed in the current session

orchVars == <<session, traces, pending, nextMsgId, nSessions, nCalls,
              lastCall, returnTick, agentRuns, ownDone, rejected>>

VARIABLES
  \* --- simulatedData.ts
  entropy,              \* the outcome of the Math.random() draws made at module load
  \* --- EdgeService
  currentDataset,       \* the key of DATASETS this.currentDataset refers to
  playbackCursor,
  faultMode,
  currentFrame,
  onHeartbeatCallbacks,
  onAlertCallbacks,
  onLogCallbacks,
  \* --- observation of the uplink (history)
  nano,                 \* the GeminiNanoResult of the last tick
  uplink,               \* Heartbeat / Alert events the last operation published
  logOut,               \* log callback invocations the last operation made
  tickLog               \* one entry per tick since the last mode switch

edgeVars == <<entropy, currentDataset, playbackCursor, faultMode, currentFrame,
              onHeartbeatCallbacks, onAlertCallbacks, onLogCallbacks,
              nano, uplink, logOut, tickLog>>

VARIABLES
  \* --- StreamingService (cloud gateway)
  streamSubscribers,    \* this.subscribers.get('agv-01'), in registration order
  \* --- App
  machines              \* the machines state of App, by machine id (empty while
                        \* App is not mounted)

appVars == <<streamSubscribers, machines>>

vars == <<orchVars, edgeVars, appVars>>

\* ------------------------------------------------------------ data lake
\* Quantities are in tenths of their unit (temp 450 is 45.0 C); anomaly
\* scores are in hundredths.

DatasetLength == 60

\* Math.random() yields a value in [0, 1); the draws modelled, in tenths
RandTenths == <<0, 5, 9>>

\* the outcomes of module load that are modelled: one per rotation of the
\* draws
EntropyValues == 0..(Len(RandTenths) - 1)

\* the k-th Math.random() draw made for frame i of dataset d
Rand(seed, d, i, k) == RandTenths[((seed + d + i + k) % Len(RandTenths)) + 1]

\* round(20 * sin(i * 0.1)), i = 0..59: Math.sin(i * 0.1) * 2 in tenths
SinTab ==
  <<0, 2, 4, 6, 8, 10, 11, 13, 14, 16, 17, 18, 19, 19, 20, 20, 20, 20, 19, 19,
    18, 17, 16, 15, 14, 12, 10, 9, 7, 5, 3, 1, -1, -3, -5, -7, -9, -11, -12, -14,
    -15, -16, -17, -18, -19, -20, -20, -20, -20, -20, -19, -19, -18, -17, -15,
    -14, -13, -11, -9, -7>>

\* round(2 * cos(i * 0.5)), i = 0..59: Math.cos(i * 0.5) * 0.2 in tenths
CosTab ==
  <<2, 2, 1, 0, -1, -2, -2, -2, -1, 0, 1, 1, 2, 2, 2, 1, 0, -1, -2, -2,
    -2, -1, 0, 1, 2, 2, 2, 1, 0, -1, -2, -2, -2, -1, -1, 0, 1, 2, 2, 2,
    1, 0, -1, -2, -2, -2, -1, 0, 1, 2, 2, 2, 1, 0, -1, -1, -2, -2, -1, -1>>

Max(a, b) == IF a >= b THEN a ELSE b

NetworkLog(protocol, command, isMalicious, size, source) ==
  [protocol |-> protocol, command |-> command, isMalicious |-> isMalicious,
   size |-> size, source |-> source]

commands ==
  <<[proto |-> "Modbus TCP", cmd |-> "Read Holding Reg (0x03)", size |-> 640],
    [proto |-> "Modbus TCP", cmd |-> "Read Input Reg (0x04)", size |-> 640],
    [proto |-> "EtherNet/IP", cmd |-> "CIP Read Data", size |-> 1280],
    [proto |-> "S7Comm", cmd |-> "Read Var", size |-> 960]>>

\* generateNormal, frame i (0-based)
NormalFrame(seed, i) ==
  LET R(k) == Rand(seed, 0, i, k)
      randomCmd == commands[((R(0) * Len(commands)) \div 10) + 1]
  IN [temp |-> 450 + SinTab[i + 1],
      vib |-> 25 + CosTab[i + 1],
      audio |-> 600 + R(1),
      latency |-> 100 + R(2) * 5,
      packetLoss |-> 0,
      cpu |-> 150 + R(3) * 2,
      pressure |-> 2000 + R(4) * 2,
      current |-> 120 + (R(5) \div 2),
      networkLog |-> NetworkLog(randomCmd.proto, randomCmd.cmd, FALSE,
                                randomCmd.size + R(6) * 10, "192.168.1.50")]

\* generateITAttack, frame i
ITAttackFrame(seed, i) ==
  LET R(k) == Rand(seed, 1, i, k)
      isSpike == i > 10 /\ i < 50
  IN [temp |-> 460 + R(0),
      vib |-> 26 + (R(1) \div 10),
      audio |-> 610 + R(2),
      latency |-> IF isSpike THEN 2000 + R(3) * 400 ELSE 150,
      packetLoss |-> IF isSpike THEN 150 + R(4) * 10 ELSE 1,
      cpu |-> IF isSpike THEN 950 + R(5) * 5 ELSE 200,
      pressure |-> 2000 + R(6),
      current |-> 120 + (R(7) \div 2),
      networkLog |->
        IF isSpike
          THEN NetworkLog("TCP", "SYN Flood", TRUE, 15000, "UNKNOWN_BOTNET")
          ELSE NetworkLog("Modbus TCP", "Read Holding Reg (0x03)", FALSE, 640,
                          "192.168.1.50")]

\* generateComplexMechanicalFailure, frame i
MechanicalFrame(seed, i) ==
  LET R(k) == Rand(seed, 2, i, k)
      vib == IF i > 15 THEN 25 + (i - 15) * 8 + R(0) * 2 ELSE 25
      audio == IF i > 30 THEN 600 + (i - 30) * 15 + R(1) * 5 ELSE 600
      current == IF i > 30 THEN 120 + (i - 30) * 5 ELSE 120
      pressure == IF i > 45 THEN 2000 - (i - 45) * 20 ELSE 2000
      temp == IF i > 45 THEN 450 + (i - 45) * 15 ELSE 450
  IN [temp |-> temp + R(2),
      vib |-> vib,
      audio |-> audio,
      latency |-> 120 + R(3) * 2,
      packetLoss |-> 0,
      cpu |-> 180 + R(4) * 2,
      pressure |-> Max(0, pressure),
      current |-> current,
      networkLog |-> NetworkLog("Modbus TCP", "Read Holding Reg (0x03)", FALSE,
                                640, "192.168.1.50")]

\* generateOTAttack, frame i
OTAttackFrame(seed, i) ==
  LET R(k) == Rand(seed, 3, i, k)
      attackActive == i > 20
  IN [temp |-> IF attackActive THEN 800 + R(0) * 10 ELSE 450,
      vib |-> IF attackActive THEN 150 + R(1) * 10 ELSE 25,
      audio |-> IF attackActive THEN 850 + R(2) * 5 ELSE 600,
      latency |-> IF attackActive THEN 1500 + R(3) * 50 ELSE 120,
      packetLoss |-> IF attackActive THEN 20 ELSE 0,
      cpu |-> IF attackActive THEN 650 ELSE 150,
      pressure |-> IF attackActive THEN 2500 ELSE 2000,
      current |-> IF attackActive THEN 250 ELSE 120,
      networkLog |->
        IF attackActive
          THEN NetworkLog("Modbus TCP", "Write Single Reg (0x06) - SET_RPM=9999",
                          TRUE, 1280, "10.0.5.2 (Rogue)")
          ELSE NetworkLog("Modbus TCP", "Read Holding Reg (0x03)", FALSE, 640,
                          "192.168.1.50")]

\* export const DATASETS, generated once when the module is loaded:
\* DATASETS[name][i], i 0-based
DATASETS(name, i) ==
  CASE name = "NORMAL" -> NormalFrame(entropy, i)
    [] name = "IT_ATTACK" -> ITAttackFrame(entropy, i)
    [] name = "MECHANICAL_FAIL" -> MechanicalFrame(entropy, i)
    [] name = "OT_ATTACK" -> OTAttackFrame(entropy, i)

\* DATASETS[name].length: every generator loops i = 0..59
DatasetLen(name) == DatasetLength

\* ------------------------------------------------------------ edge engine

FaultModes == {"NONE", "IT_ATTACK", "OT_ATTACK", "MECHANICAL_FAIL"}

\* the callbacks that get registered: the cloud gateway's handlers and a
\* second subscriber (a component, a test)
Callbacks == {"gateway", "client"}

AlertThreshold == 70
HeartbeatEvery == 5

\* the switch of setFaultMode
DatasetOf(mode) ==
  CASE mode = "IT_ATTACK" -> "IT_ATTACK"
    [] mode = "OT_ATTACK" -> "OT_ATTACK"
    [] mode = "MECHANICAL_FAIL" -> "MECHANICAL_FAIL"
    [] OTHER -> "NORMAL"

\* the fields of the engine a mode switch writes
EdgeState(mode, cursor, dataset) ==
  [faultMode |-> mode, playbackCursor |-> cursor, currentDataset |-> dataset]

\* log(msg): the callback invocations of its forEach, in order, each with
\* the line it is handed and the state of the engine while it runs
log(msg, state) ==
  [k \in DOMAIN onLogCallbacks |->
     [cb |-> onLogCallbacks[k], line |-> msg, state |-> state]]


\* the detection logic with the kinetic rule tested before the network rule
Classify_KineticFirst(features, mode) ==
  IF features.networkLog.isMalicious
     \/ (features.temp > 750 /\ features.latency > 1000)
    THEN [detectedLabel |-> "CYBER_KINETIC", anomalyScore |-> 99,
          inferenceTimeMs |-> 12,
          specificAlerts |-> <<"DPI ALERT: Unauthorized Modbus Command",
                               features.networkLog.command,
                               "Correlated Thermal Anomaly">>]
  ELSE IF features.packetLoss > 50 /\ features.temp < 600
    THEN [detectedLabel |-> "NETWORK_DDOS", anomalyScore |-> 92,
          inferenceTimeMs |-> 12,
          specificAlerts |-> <<"High Packet Loss Detected", "Network Latency Spike">>]
  ELSE IF mode = "MECHANICAL_FAIL"
          /\ (features.vib > 50 \/ features.audio > 700 \/ features.pressure < 1800)
    THEN [detectedLabel |-> "MECHANICAL_WEAR", anomalyScore |-> 88,
          inferenceTimeMs |-> 12,
          specificAlerts |->
            (IF features.audio > 750 THEN <<"Audio: Abnormal Noise Detected">>
             ELSE <<>>)
            \o (IF features.vib > 50 THEN <<"Vibration: Rise in Amplitude">>
                ELSE <<>>)]
  ELSE [detectedLabel |-> "NORMAL", anomalyScore |-> 10, inferenceTimeMs |-> 12,
        specificAlerts |-> <<>>]

\* the detection logic with the mechanical rule not gated by the fault mode
Classify_Ungated(features, mode) ==
  IF features.packetLoss > 50 /\ features.temp < 600
    THEN [detectedLabel |-> "NETWORK_DDOS", anomalyScore |-> 92,
          inferenceTimeMs |-> 12,
          specificAlerts |-> <<"High Packet Loss Detected", "Network Latency Spike">>]
  ELSE IF features.networkLog.isMalicious
          \/ (features.temp > 750 /\ features.latency > 1000)
    THEN [detectedLabel |-> "CYBER_KINETIC", anomalyScore |-> 99,
          inferenceTimeMs |-> 12,
          specificAlerts |-> <<"DPI ALERT: Unauthorized Modbus Command",
                               features.networkLog.command,
                               "Correlated Thermal Anomaly">>]
  ELSE IF features.vib > 50 \/ features.audio > 700 \/ features.pressure < 1800
    THEN [detectedLabel |-> "MECHANICAL_WEAR", anomalyScore |-> 88,
          inferenceTimeMs |-> 12,
          specificAlerts |->
            (IF features.audio > 750 THEN <<"Audio: Abnormal Noise Detected">>
             ELSE <<>>)
            \o (IF features.vib > 50 THEN <<"Vibration: Rise in Amplitude">>
                ELSE <<>>)]
  ELSE [detectedLabel |-> "NORMAL", anomalyScore |-> 10, inferenceTimeMs |-> 12,
        specificAlerts |-> <<>>]

\* runGeminiNano, "DETECTION LOGIC": the label, score and alerts of a frame
Classify(features, mode) ==
  IF features.packetLoss > 50 /\ features.temp < 600
    THEN [detectedLabel |-> "NETWORK_DDOS", anomalyScore |-> 92,
          inferenceTimeMs |-> 12,
          specificAlerts |-> <<"High Packet Loss Detected", "Network Latency Spike">>]
  ELSE IF features.networkLog.isMalicious
          \/ (features.temp > 750 /\ features.latency > 1000)
    THEN [detectedLabel |-> "CYBER_KINETIC", anomalyScore |-> 99,
          inferenceTimeMs |-> 12,
          specificAlerts |-> <<"DPI ALERT: Unauthorized Modbus Command",
                               features.networkLog.command,
                               "Correlated Thermal Anomaly">>]
  ELSE IF mode = "MECHANICAL_FAIL"
          /\ (features.vib > 50 \/ features.audio > 700 \/ features.pressure < 1800)
    THEN [detectedLabel |-> "MECHANICAL_WEAR", anomalyScore |-> 88,
          inferenceTimeMs |-> 12,
          specificAlerts |->
            (IF features.audio > 750 THEN <<"Audio: Abnormal Noise Detected">>
             ELSE <<>>)
            \o (IF features.vib > 50 THEN <<"Vibration: Rise in Amplitude">>
                ELSE <<>>)]
  ELSE [detectedLabel |-> "NORMAL", anomalyScore |-> 10, inferenceTimeMs |-> 12,
        specificAlerts |-> <<>>]

\* the EdgeHeartbeat sendHeartbeat builds
Heartbeat(frame) ==
  [type |-> "HEARTBEAT", machineId |-> "agv-01", deviceStatus |-> "ONLINE",
   cpuLoad |-> frame.cpu, memoryUsage |-> 420, averageTemp |-> frame.temp]

\* the EdgeAlert triggerCloudUpload builds
Alert(frame, nanoResult) ==
  [type |-> "ALERT", machineId |-> "agv-01", nanoAnalysis |-> nanoResult,
   rawTelemetry |->
     [temperature |-> frame.temp, vibration |-> frame.vib,
      audioDecibels |-> frame.audio, networkLatency |-> frame.latency,
      current |-> frame.current, pressure |-> frame.pressure,
      packetLoss |-> frame.packetLoss,
      networkTraffic |->
        [throughput |-> frame.networkLog.size \div 1024,
         protocol |-> frame.networkLog.protocol,
         command |-> frame.networkLog.command,
         isMalicious |-> frame.networkLog.isMalicious,
         sourceIp |-> frame.networkLog.source]],
   fileAttachments |->
     [audioClip |-> "normal_rec.wav", pcapDump |-> "net_traffic.pcap",
      systemLogs |-> "syslog.log"]]

\* sendHeartbeat sampling on the index of the frame just read instead of the
\* advanced cursor
sendHeartbeat_BeforeAdvance(cursor, frame) ==
  IF ((cursor + DatasetLength - 1) % DatasetLength) % HeartbeatEvery # 0 THEN <<>>
  ELSE <<[event |-> Heartbeat(frame), to |-> onHeartbeatCallbacks]>>

\* sendHeartbeat: the events it publishes, with the callbacks each is handed to
sendHeartbeat(cursor, frame) ==
  IF cursor % HeartbeatEvery # 0 THEN <<>>
  ELSE <<[event |-> Heartbeat(frame), to |-> onHeartbeatCallbacks]>>

\* triggerCloudUpload handing the alert to the first callback only
triggerCloudUpload_FirstOnly(frame, nanoResult) ==
  <<[event |-> Alert(frame, nanoResult),
     to |-> IF onAlertCallbacks = <<>> THEN <<>>
            ELSE <<Head(onAlertCallbacks)>>]>>

\* triggerCloudUpload: the events it publishes
triggerCloudUpload(frame, nanoResult) ==
  <<[event |-> Alert(frame, nanoResult), to |-> onAlertCallbacks]>>

\* triggerCloudUpload: the lines it logs
uploadLogs(frame, nanoResult, cursor) ==
  LET state == EdgeState(faultMode, cursor, currentDataset)
  IN log(<<"[GEMINI NANO] ANOMALY: ", nanoResult.detectedLabel>>, state)
     \o (IF frame.networkLog.isMalicious
           THEN log(<<"[NIDS] BLOCKED: ", frame.networkLog.protocol,
                      " command from ", frame.networkLog.source>>, state)
           ELSE <<>>)

\* the decision with the bandwidth sampling applied to alerts as well
decideUplink_Throttled(nanoResult, cursor, frame) ==
  IF nanoResult.anomalyScore > AlertThreshold /\ cursor % HeartbeatEvery = 0
    THEN triggerCloudUpload(frame, nanoResult)
    ELSE sendHeartbeat(cursor, frame)

\* the decision without its else: the heartbeat is attempted on every tick
decideUplink_Both(nanoResult, cursor, frame) ==
  (IF nanoResult.anomalyScore > AlertThreshold
     THEN triggerCloudUpload(frame, nanoResult) ELSE <<>>)
  \o sendHeartbeat(cursor, frame)

\* runGeminiNano, "Decision Logic (Edge vs Cloud)"
decideUplink(nanoResult, cursor, frame) ==
  IF nanoResult.anomalyScore > AlertThreshold
    THEN triggerCloudUpload(frame, nanoResult)
    ELSE sendHeartbeat(cursor, frame)

EdgeLoaded(seed) ==
  /\ entropy = seed
  /\ currentDataset = "NORMAL"
  /\ playbackCursor = 0
  /\ faultMode = "NONE"
  /\ currentFrame = NormalFrame(seed, 0)
  /\ onHeartbeatCallbacks = <<>>
  /\ onAlertCallbacks = <<>>
  /\ onLogCallbacks = <<>>
  /\ nano = Classify(NormalFrame(seed, 0), "NONE")
  /\ uplink = <<>>
  /\ logOut = <<>>
  /\ tickLog = <<>>

EdgeInit == \E seed \in EntropyValues : EdgeLoaded(seed)

\* the line setFaultMode logs
MountLine(mode) == <<"[KERNEL] Mounting Dataset: DATASET_", mode>>

\* setFaultMode without the cursor reset
setFaultMode_KeepsCursor(mode) ==
  /\ faultMode' = mode
  /\ logOut' = log(MountLine(mode),
                   EdgeState(mode, playbackCursor, currentDataset))
  /\ currentDataset' = DatasetOf(mode)
  /\ tickLog' = <<>>
  /\ uplink' = <<>>
  /\ UNCHANGED <<entropy, playbackCursor, currentFrame, onHeartbeatCallbacks,
                 onAlertCallbacks, onLogCallbacks, nano>>

\* setFaultMode(mode): the mode and the cursor are written, then the line is
\* logged (the callbacks run on the dataset still mounted), then the dataset
\* of the mode is mounted
setFaultMode(mode) ==
  /\ faultMode' = mode
  /\ playbackCursor' = 0
  /\ logOut' = log(MountLine(mode), EdgeState(mode, 0, currentDataset))
  /\ currentDataset' = DatasetOf(mode)
  /\ tickLog' = <<>>
  /\ uplink' = <<>>
  /\ UNCHANGED <<entropy, currentFrame, onHeartbeatCallbacks, onAlertCallbacks,
                 onLogCallbacks, nano>>

Subscriptions ==
  Len(onHeartbeatCallbacks) + Len(onAlertCallbacks) + Len(onLogCallbacks)

subscribeToHeartbeat(cb) ==
  /\ Subscriptions < MaxSubs
  /\ onHeartbeatCallbacks' = Append(onHeartbeatCallbacks, cb)
  /\ uplink' = <<>>
  /\ logOut' = <<>>
  /\ UNCHANGED <<entropy, currentDataset, playbackCursor, faultMode, currentFrame,
                 onAlertCallbacks, onLogCallbacks, nano, tickLog>>

subscribeToAlert(cb) ==
  /\ Subscriptions < MaxSubs
  /\ onAlertCallbacks' = Append(onAlertCallbacks, cb)
  /\ uplink' = <<>>
  /\ logOut' = <<>>
  /\ UNCHANGED <<entropy, currentDataset, playbackCursor, faultMode, currentFrame,
                 onHeartbeatCallbacks, onLogCallbacks, nano, tickLog>>

subscribeToLogs(cb) ==
  /\ Subscriptions < MaxSubs
  /\ onLogCallbacks' = Append(onLogCallbacks, cb)
  /\ uplink' = <<>>
  /\ logOut' = <<>>
  /\ UNCHANGED <<entropy, currentDataset, playbackCursor, faultMode, currentFrame,
                 onHeartbeatCallbacks, onAlertCallbacks, nano, tickLog>>

\* readNextFrame advancing the cursor before it reads
readNextFrame_AdvanceFirst(dataset, cursor) ==
  [frame |-> DATASETS(dataset, (cursor + 1) % DatasetLen(dataset)),
   cursor |-> (cursor + 1) % DatasetLen(dataset)]

\* readNextFrame without the modulo
readNextFrame_NoWrap(dataset, cursor) ==
  [frame |-> DATASETS(dataset, cursor), cursor |-> cursor + 1]

\* readNextFrame wrapping one position late
readNextFrame_WrapLate(dataset, cursor) ==
  [frame |-> DATASETS(dataset, cursor),
   cursor |-> (cursor + 1) % (DatasetLen(dataset) + 1)]

\* readNextFrame: the frame it makes current and the cursor it leaves
readNextFrame(dataset, cursor) ==
  [frame |-> DATASETS(dataset, cursor),
   cursor |-> (cursor + 1) % DatasetLen(dataset)]

\* ------------------------------------------------- cloud gateway, app state
\* Sample values are in tenths like the telemetry; a timestamp is the reading
\* of a logical clock that advances with every sample streamed, the mock
\* history lying in the past (timestamps -19..0).

WindowSize == 20

MockPoints == 20

\* generateTimeSeries(20, min, max)
generateTimeSeries(min, max) ==
  [i \in 1..MockPoints |->
     [timestamp |-> i - MockPoints,
      value |-> min + ((max - min) * RandTenths[(i % Len(RandTenths)) + 1]) \div 10]]

\* generateNetworkTraffic(20, protocol, 'NONE')
generateNetworkTraffic(protocol, command) ==
  [i \in 1..MockPoints |->
     [timestamp |-> i - MockPoints,
      throughput |-> 100 + 2 * RandTenths[(i % Len(RandTenths)) + 1],
      protocol |-> protocol, command |-> command, isMalicious |-> FALSE,
      sourceIp |-> "192.168.1.10"]]

\* MOCK_MACHINES: the streamed machine and one of the others
MOCK_MACHINES ==
  [id \in {"agv-01", "lathe-01"} |->
     IF id = "agv-01"
       THEN [status |-> "OK", isStreaming |-> FALSE,
             latestAudioUrl |-> "undefined", latestEdgeDiagnosis |-> "undefined",
             sensors |->
               [temperature |-> generateTimeSeries(440, 460),
                vibration |-> generateTimeSeries(20, 30),
                current |-> generateTimeSeries(100, 150),
                networkLatency |-> generateTimeSeries(100, 150),
                audioDecibels |-> generateTimeSeries(580, 620),
                networkTraffic |-> generateNetworkTraffic("DNP3", "Read")]]
       ELSE [status |-> "OK", isStreaming |-> FALSE,
             latestAudioUrl |-> "undefined", latestEdgeDiagnosis |-> "undefined",
             sensors |->
               [temperature |-> generateTimeSeries(500, 650),
                vibration |-> generateTimeSeries(100, 150),
                current |-> generateTimeSeries(200, 300),
                networkLatency |-> generateTimeSeries(50, 100),
                audioDecibels |-> generateTimeSeries(750, 820),
                networkTraffic |-> generateNetworkTraffic("S7Comm", "Read Var")]]]

\* the clock handleAlert reads
Now ==
  LET history == machines["agv-01"].sensors.temperature
  IN history[Len(history)].timestamp + 1

\* handleHeartbeat reporting a heartbeat as a degraded state
handleHeartbeat_Warning(hb) ==
  [status |-> "WARNING", isStreaming |-> TRUE, latestAudioUrl |-> "undefined",
   latestEdgeDiagnosis |-> "NORMAL", sensors |-> <<>>]

\* StreamingService.handleHeartbeat: the update it broadcasts (sensors absent)
handleHeartbeat(hb) ==
  [status |-> "OK", isStreaming |-> TRUE, latestAudioUrl |-> "undefined",
   latestEdgeDiagnosis |-> "NORMAL", sensors |-> <<>>]

\* StreamingService.handleAlert: the update it broadcasts
handleAlert(alert, timestamp) ==
  LET raw == alert.rawTelemetry
  IN [status |-> "CRITICAL", isStreaming |-> TRUE,
      latestAudioUrl |-> alert.fileAttachments.audioClip,
      latestEdgeDiagnosis |-> alert.nanoAnalysis.detectedLabel,
      sensors |->
        <<[rawTemperature |-> [timestamp |-> timestamp, value |-> raw.temperature],
           rawVibration |-> [timestamp |-> timestamp, value |-> raw.vibration],
           rawAudio |-> [timestamp |-> timestamp, value |-> raw.audioDecibels],
           rawCurrent |-> [timestamp |-> timestamp,
                           value |-> 120 + Rand(entropy, 4, timestamp, 0)],
           rawLatency |-> [timestamp |-> timestamp, value |-> raw.networkLatency],
           rawTraffic |-> [timestamp |-> timestamp,
                           throughput |-> raw.networkTraffic.throughput,
                           protocol |-> raw.networkTraffic.protocol,
                           command |-> raw.networkTraffic.command,
                           isMalicious |-> raw.networkTraffic.isMalicious,
                           sourceIp |-> raw.networkTraffic.sourceIp]]>>]

\* append of handleStreamUpdate keeping the first 20 entries
append_KeepsFirst(history, point) ==
  LET newHistory == Append(history, point)
  IN SubSeq(newHistory, 1, IF Len(newHistory) < WindowSize
                             THEN Len(newHistory) ELSE WindowSize)

\* append of handleStreamUpdate: [...history, point].slice(-20)
append(history, point) ==
  LET newHistory == Append(history, point)
  IN IF Len(newHistory) <= WindowSize THEN newHistory
     ELSE SubSeq(newHistory, Len(newHistory) - WindowSize + 1, Len(newHistory))

\* handleStreamUpdate(data): the updater it hands to setMachines
handleStreamUpdate(prevMachines, data) ==
  [id \in DOMAIN prevMachines |->
     LET m == prevMachines[id]
     IN IF id # "agv-01" THEN m
        ELSE IF data.sensors = <<>>
          THEN [m EXCEPT !.status = data.status,
                         !.isStreaming = data.isStreaming,
                         !.latestAudioUrl = data.latestAudioUrl,
                         !.latestEdgeDiagnosis = data.latestEdgeDiagnosis]
        ELSE LET raw == data.sensors[1]
             IN [m EXCEPT
                   !.status = data.status,
                   !.isStreaming = TRUE,
                   !.latestAudioUrl = data.latestAudioUrl,
                   !.latestEdgeDiagnosis = data.latestEdgeDiagnosis,
                   !.sensors =
                     [temperature |-> append(m.sensors.temperature, raw.rawTemperature),
                      vibration |-> append(m.sensors.vibration, raw.rawVibration),
                      current |-> append(m.sensors.current, raw.rawCurrent),
                      audioDecibels |-> append(m.sensors.audioDecibels, raw.rawAudio),
                      networkLatency |-> append(m.sensors.networkLatency, raw.rawLatency),
                      networkTraffic |-> append(m.sensors.networkTraffic, raw.rawTraffic)]]]

\* broadcastToSubscribers: every subscriber of agv-01 applies the update
RECURSIVE broadcastToSubscribers(_, _, _)
broadcastToSubscribers(subscribers, prevMachines, data) ==
  IF subscribers = <<>> THEN prevMachines
  ELSE broadcastToSubscribers(Tail(subscribers),
                              handleStreamUpdate(prevMachines, data), data)

\* the forEach of an uplink event: each registration of the gateway handles it
RECURSIVE deliver(_, _, _)
deliver(callbacks, event, prevMachines) ==
  IF callbacks = <<>> THEN prevMachines
  ELSE IF Head(callbacks) # "gateway"
    THEN deliver(Tail(callbacks), event, prevMachines)
  ELSE deliver(Tail(callbacks), event,
               broadcastToSubscribers(
                 streamSubscribers, prevMachines,
                 IF event.type = "ALERT" THEN handleAlert(event, Now)
                 ELSE handleHeartbeat(event)))

\* the app state after the events of a tick are published
RECURSIVE publish(_, _)
publish(events, prevMachines) ==
  IF events = <<>> THEN prevMachines
  ELSE publish(Tail(events), deliver(Head(events).to, Head(events).event, prevMachines))

\* App is not mounted: nothing has subscribed to the gateway and there is no
\* machines state
AppUnmounted ==
  /\ streamSubscribers = <<>>
  /\ machines = <<>>

\* one firing of the setInterval callback: readNextFrame, then runGeminiNano
Tick ==
  /\ Len(tickLog) < MaxTicks
  /\ LET frame == readNextFrame(currentDataset, playbackCursor).frame
         cursor == readNextFrame(currentDataset, playbackCursor).cursor
         result == Classify(frame, faultMode)
         events == decideUplink(result, cursor, frame)
     IN /\ currentFrame' = frame
        /\ playbackCursor' = cursor
        /\ nano' = result
        /\ uplink' = events
        /\ logOut' = IF result.anomalyScore > AlertThreshold
                       THEN uploadLogs(frame, result, cursor) ELSE <<>>
        /\ tickLog' = Append(tickLog,
                             [read |-> playbackCursor,
                              score |-> result.anomalyScore,
                              out |-> [k \in DOMAIN events |-> events[k].event.type]])
        /\ machines' = publish(events, machines)
  /\ UNCHANGED <<entropy, currentDataset, faultMode, onHeartbeatCallbacks,
                 onAlertCallbacks, onLogCallbacks, streamSubscribers>>

\* frames around the thresholds of the detection logic
ProbeFrames ==
  {[temp |-> temp, vib |-> vib, audio |-> audio, latency |-> latency,
    packetLoss |-> packetLoss, cpu |-> 150, pressure |-> pressure,
    current |-> 120,
    networkLog |-> NetworkLog("Modbus TCP", "Write Single Reg (0x06)",
                              isMalicious, 640, "10.0.5.2")] :
     temp \in {500, 599, 600, 760}, vib \in {25, 50, 51, 100},
     audio \in {600, 700, 701, 751}, latency \in {100, 1001},
     packetLoss \in {50, 51, 60}, pressure \in {1799, 1800, 2000},
     isMalicious \in BOOLEAN}

\* runGeminiNano entered on a frame: label and score hold their initial
\* values, the inference time is not computed yet
NanoEntered(frame, mode) ==
  /\ entropy = 0
  /\ currentDataset = DatasetOf(mode)
  /\ playbackCursor = 0
  /\ faultMode = mode
  /\ currentFrame = frame
  /\ onHeartbeatCallbacks = <<"gateway">>
  /\ onAlertCallbacks = <<"gateway">>
  /\ onLogCallbacks = <<>>
  /\ nano = [detectedLabel |-> "NORMAL", anomalyScore |-> 10,
             inferenceTimeMs |-> 0, specificAlerts |-> <<>>]
  /\ uplink = <<>>
  /\ logOut = <<>>
  /\ tickLog = <<>>

\* runGeminiNano on the current frame
runGeminiNano ==
  /\ nano.inferenceTimeMs = 0
  /\ LET result == Classify(currentFrame, faultMode)
     IN /\ nano' = result
        /\ uplink' = decideUplink(result, playbackCursor, currentFrame)
        /\ machines' = publish(decideUplink(result, playbackCursor, currentFrame),
                               machines)
        /\ logOut' = IF result.anomalyScore > AlertThreshold
                       THEN uploadLogs(currentFrame, result, playbackCursor)
                       ELSE <<>>
  /\ UNCHANGED <<entropy, currentDataset, playbackCursor, faultMode, currentFrame,
                 onHeartbeatCallbacks, onAlertCallbacks, onLogCallbacks, tickLog,
                 streamSubscribers>>

EdgeNext ==
  \/ \E mode \in FaultModes : setFaultMode(mode) /\ UNCHANGED <<orchVars, appVars>>
  \/ \E cb \in Callbacks : subscribeToHeartbeat(cb) /\ UNCHANGED <<orchVars, appVars>>
  \/ \E cb \in Callbacks : subscribeToAlert(cb) /\ UNCHANGED <<orchVars, appVars>>
  \/ \E cb \in Callbacks : subscribeToLogs(cb) /\ UNCHANGED <<orchVars, appVars>>
  \/ Tick /\ UNCHANGED orchVars


\* ------------------------------------------------------------ orchestrator

Statuses == <<"RESEARCHING", "PLANNING", "VALIDATING", "DEPLOYED">>

\* The objective a caller supplies: the one ResearchLab starts with.
Objectives ==
  {"Implement SOTA Transformer model for bearing fault prediction"}

\* String.prototype.includes on that objective: it holds 'fault' and neither
\* topic of the knowledge base ('bearing faults', 'network ddos')
Includes(query, needle) ==
  <<query, needle>> \in
    {<<"Implement SOTA Transformer model for bearing fault prediction", "fault">>}

knowledgeBase ==
  <<[id |-> "kb-001", topic |-> "bearing faults"],
    [id |-> "kb-002", topic |-> "network ddos"]>>

\* MemoryService.retrieveContext: the knowledge-base entries whose topic the
\* query holds, or all of them when the query holds 'fault'
retrieveContext(query) ==
  SelectSeq(knowledgeBase,
            LAMBDA k : Includes(query, k.topic) \/ Includes(query, "fault"))

\* messages.slice(-n)
LastN(s, n) ==
  IF Len(s) <= n THEN s ELSE SubSeq(s, Len(s) - n + 1, Len(s))

\* pruneContext with the objective message dropped: only the last 10 remain
pruneContext_LastOnly(messages) ==
  IF Len(messages) > PruneThreshold
    THEN LastN(messages, PruneKeepLast)
    ELSE messages

\* MemoryService.pruneContext
pruneContext(messages) ==
  IF Len(messages) > PruneThreshold
    THEN <<messages[1]>> \o LastN(messages, PruneKeepLast)
    ELSE messages

NoMetrics == "none"
\* the ModelTestResult runATATest builds
TestMetrics == "PatchTST-Industrial-v1/PASSED"

\* An AgentMessage.  approved is "undefined" until processApproval writes it.
Msg(id, role, content, hil, metrics) ==
  [id |-> id, role |-> role, content |-> content, requiresHIL |-> hil,
   approved |-> "undefined", testMetrics |-> metrics]

initialMsg(id) == Msg(id, "AIO", "Objective Received", TRUE, NoMetrics)
rejectionMsg(id) == Msg(id, "AIO", "Operation cancelled by Supervisor", FALSE, NoMetrics)
\* runAISearch's result
searchRes(id) == Msg(id, "AIS", "Top Candidates", FALSE, NoMetrics)
planMsg(id) == Msg(id, "AIO", "Findings analyzed", TRUE, NoMetrics)
\* runATATest's result
testRes(id) == Msg(id, "ATA", "Test Bench Execution Complete", FALSE, TestMetrics)
validMsg(id, res) == Msg(id, "AIO", "Test Results Verified", TRUE, res.testMetrics)
deployMsg(id) == Msg(id, "AID", "Deployment Successful", FALSE, NoMetrics)

\* ObservabilityService.startTrace: the span is pushed with status PENDING_HIL
\* and its id is its place in the list (the list never shrinks)
startTrace(ts, agent, action) ==
  Append(ts, [stepId |-> Len(ts) + 1, agent |-> agent, action |-> action,
              status |-> "PENDING_HIL"])

\* endTrace with its status argument ignored: every span ends with SUCCESS
endTrace_AlwaysSuccess(ts, traceId, status) ==
  [i \in DOMAIN ts |->
     IF ts[i].stepId = traceId THEN [ts[i] EXCEPT !.status = "SUCCESS"] ELSE ts[i]]

\* ObservabilityService.endTrace
endTrace(ts, traceId, status) ==
  [i \in DOMAIN ts |->
     IF ts[i].stepId = traceId THEN [ts[i] EXCEPT !.status = status] ELSE ts[i]]

\* this.session.messages.find(m => m.id === messageId): its index, 0 if none
FindMsg(messages, messageId) ==
  IF \E i \in DOMAIN messages : messages[i].id = messageId
    THEN CHOOSE i \in DOMAIN messages :
           /\ messages[i].id = messageId
           /\ \A j \in DOMAIN messages : messages[j].id = messageId => i <= j
    ELSE 0

\* targetMsg.approved = approved
SetApproved(messages, i, approved) ==
  [messages EXCEPT ![i].approved = IF approved THEN "true" ELSE "false"]

\* resetSession, as the constructor and startSession run it
resetSession(no) ==
  [no |-> no, objective |-> "", status |-> "RESEARCHING", messages |-> <<>>,
   contextUsageTokenEstimate |-> 0, longTermMemoryHits |-> <<>>]

NoCall ==
  [op |-> "none", approved |-> FALSE, found |-> FALSE,
   sess |-> 0, entryStatus |-> "RESEARCHING", targetHIL |-> FALSE,
   targetDecided |-> FALSE, afterReject |-> FALSE, returned |-> <<>>]

OrchInit ==
  /\ session = resetSession(0)
  /\ traces = <<>>
  /\ pending = {}
  /\ nextMsgId = 1
  /\ nSessions = 0
  /\ nCalls = 0
  /\ lastCall = NoCall
  /\ returnTick = FALSE
  /\ agentRuns = [AIS |-> 0, ATA |-> 0]
  /\ ownDone = FALSE
  /\ rejected = FALSE

\* startSession(objective): no await in its body, one step
startSession(objective) ==
  /\ nSessions < MaxSessions
  /\ LET traceId == Len(traces) + 1
         msg == initialMsg(nextMsgId)
     IN /\ session' = [resetSession(nSessions + 1) EXCEPT
                         !.objective = objective,
                         !.longTermMemoryHits = retrieveContext(objective),
                         !.messages = <<msg>>]
        /\ traces' = endTrace(startTrace(traces, "AIO", "Initialize Session"),
                              traceId, "SUCCESS")
        /\ lastCall' = [NoCall EXCEPT !.op = "startSession",
                          !.sess = nSessions + 1, !.returned = <<msg>>]
  /\ nextMsgId' = nextMsgId + 1
  /\ nSessions' = nSessions + 1
  /\ returnTick' = ~returnTick
  /\ agentRuns' = [AIS |-> 0, ATA |-> 0]
  /\ ownDone' = FALSE
  /\ rejected' = FALSE
  /\ UNCHANGED <<pending, nCalls>>

\* what a caller learns of a processApproval call when it completes
CallRecord(approved, i, sess, entryStatus, returned) ==
  [op |-> "processApproval", approved |-> approved,
   found |-> i # 0, sess |-> sess, entryStatus |-> entryStatus,
   targetHIL |-> IF i = 0 THEN FALSE ELSE session.messages[i].requiresHIL,
   targetDecided |-> IF i = 0 THEN FALSE
                     ELSE session.messages[i].approved # "undefined",
   afterReject |-> rejected, returned |-> returned]

\* processApproval with the missing-message return placed after the rejection
\* handling: a rejection of an unknown id still records its span
processApprovalNotFound_Traced(messageId, approved) ==
  /\ nCalls < MaxCalls
  /\ FindMsg(session.messages, messageId) = 0
  /\ nCalls' = nCalls + 1
  /\ returnTick' = ~returnTick
  /\ lastCall' = CallRecord(approved, 0, session.no, session.status, <<>>)
  /\ traces' = IF approved THEN traces
               ELSE endTrace(startTrace(traces, "AIO", "Handle Rejection"),
                             Len(traces) + 1, "FAILURE")
  /\ UNCHANGED <<session, pending, nextMsgId, nSessions, agentRuns, ownDone,
                 rejected>>

\* processApproval, line 169: no message of the current session has the id
processApprovalNotFound(messageId, approved) ==
  /\ nCalls < MaxCalls
  /\ FindMsg(session.messages, messageId) = 0
  /\ nCalls' = nCalls + 1
  /\ returnTick' = ~returnTick
  /\ lastCall' = CallRecord(approved, 0, session.no, session.status, <<>>)
  /\ UNCHANGED <<session, traces, pending, nextMsgId, nSessions, agentRuns, ownDone,
                 rejected>>

\* a rejection handler without its early return: the call falls through to
\* the routing, which moves a VALIDATING session on
processApprovalReject_FallsThrough(messageId) ==
  /\ nCalls < MaxCalls
  /\ LET i == FindMsg(session.messages, messageId)
         traceId == Len(traces) + 1
         msg == rejectionMsg(nextMsgId)
     IN /\ i # 0
        /\ session' = [session EXCEPT
                         !.messages = SetApproved(@, i, FALSE),
                         !.status = IF @ = "VALIDATING" THEN "DEPLOYED" ELSE @]
        /\ traces' = endTrace(startTrace(traces, "AIO", "Handle Rejection"),
                              traceId, "FAILURE")
        /\ lastCall' = CallRecord(FALSE, i, session.no,
                                  session.status, <<msg>>)
  /\ nextMsgId' = nextMsgId + 1
  /\ nCalls' = nCalls + 1
  /\ returnTick' = ~returnTick
  /\ ownDone' = TRUE
  /\ rejected' = TRUE
  /\ UNCHANGED <<pending, nSessions, agentRuns>>

\* processApproval(messageId, false): the HIL rejection branch
processApprovalReject(messageId) ==
  /\ nCalls < MaxCalls
  /\ LET i == FindMsg(session.messages, messageId)
         traceId == Len(traces) + 1
         msg == rejectionMsg(nextMsgId)
     IN /\ i # 0
        /\ session' = [session EXCEPT !.messages = SetApproved(@, i, FALSE)]
        /\ traces' = endTrace(startTrace(traces, "AIO", "Handle Rejection"),
                              traceId, "FAILURE")
        /\ lastCall' = CallRecord(FALSE, i, session.no,
                                  session.status, <<msg>>)
  /\ nextMsgId' = nextMsgId + 1
  /\ nCalls' = nCalls + 1
  /\ returnTick' = ~returnTick
  /\ ownDone' = TRUE
  /\ rejected' = TRUE
  /\ UNCHANGED <<pending, nSessions, agentRuns>>

\* processApproval(messageId, true) in RESEARCHING or PLANNING, up to the
\* await of runAISearch / runATATest: the flag is written, the span opened
\* and the sub-agent called; the call is then suspended
processApprovalSuspend(messageId) ==
  /\ nCalls < MaxCalls
  /\ session.status \in {"RESEARCHING", "PLANNING"}
  /\ LET i == FindMsg(session.messages, messageId)
         agent == IF session.status = "RESEARCHING" THEN "AIS" ELSE "ATA"
         action == IF session.status = "RESEARCHING"
                     THEN "Tool Usage: Google Search"
                     ELSE "Tool Usage: Python REPL"
     IN /\ i # 0
        /\ session' = [session EXCEPT !.messages = SetApproved(@, i, TRUE)]
        /\ traces' = startTrace(traces, agent, action)
        /\ pending' = pending \cup
             {[traceId |-> Len(traces) + 1, agent |-> agent,
               call |-> CallRecord(TRUE, i, session.no,
                                   session.status, <<>>)]}
        /\ agentRuns' = [agentRuns EXCEPT ![agent] = @ + 1]
  /\ nCalls' = nCalls + 1
  /\ UNCHANGED <<nextMsgId, nSessions, lastCall, returnTick, ownDone, rejected>>

\* the messages the RESEARCHING branch pushes to newMessages, in order
researchingMessages(id) == <<searchRes(id), planMsg(id + 1)>>

\* the PLANNING branch with its two pushes in the other order
planningMessages_Swapped(id) == <<validMsg(id + 1, testRes(id)), testRes(id)>>

\* the messages the PLANNING branch pushes to newMessages, in order
planningMessages(id) == <<testRes(id), validMsg(id + 1, testRes(id))>>

\* the messages the VALIDATING branch pushes to newMessages
validatingMessages(id) == <<deployMsg(id)>>

\* "Context Management Update": push the new messages, prune
recordMessages(messages, newMessages) ==
  pruneContext(messages \o newMessages)

\* the continuation of a suspended call: it reads this.session again, which
\* is whatever session the service holds by then
processApprovalResume(c) ==
  /\ c \in pending
  /\ LET newMessages == IF c.agent = "AIS" THEN researchingMessages(nextMsgId)
                        ELSE planningMessages(nextMsgId)
     IN /\ session' = [session EXCEPT
                         !.status = IF c.agent = "AIS" THEN "PLANNING"
                                    ELSE "VALIDATING",
                         !.messages = recordMessages(@, newMessages)]
        /\ lastCall' = [c.call EXCEPT !.returned = newMessages]
  /\ traces' = endTrace(traces, c.traceId, "SUCCESS")
  /\ pending' = pending \ {c}
  /\ nextMsgId' = nextMsgId + 2
  /\ returnTick' = ~returnTick
  /\ ownDone' = (ownDone \/ c.call.sess = session.no)
  /\ UNCHANGED <<nSessions, nCalls, agentRuns, rejected>>

\* processApproval(messageId, true) in VALIDATING: no await, one step
processApprovalDeploy(messageId) ==
  /\ nCalls < MaxCalls
  /\ session.status = "VALIDATING"
  /\ LET i == FindMsg(session.messages, messageId)
         traceId == Len(traces) + 1
         newMessages == validatingMessages(nextMsgId)
     IN /\ i # 0
        /\ session' = [session EXCEPT
                         !.status = "DEPLOYED",
                         !.messages = recordMessages(SetApproved(@, i, TRUE),
                                                     newMessages)]
        /\ traces' = endTrace(startTrace(traces, "AID", "Tool Usage: Edge Compiler"),
                              traceId, "SUCCESS")
        /\ lastCall' = CallRecord(TRUE, i, session.no,
                                  session.status, newMessages)
  /\ nextMsgId' = nextMsgId + 1
  /\ nCalls' = nCalls + 1
  /\ returnTick' = ~returnTick
  /\ ownDone' = TRUE
  /\ UNCHANGED <<pending, nSessions, agentRuns, rejected>>

\* processApproval(messageId, true) in DEPLOYED: no branch matches
processApprovalDeployed(messageId) ==
  /\ nCalls < MaxCalls
  /\ session.status = "DEPLOYED"
  /\ LET i == FindMsg(session.messages, messageId)
     IN /\ i # 0
        /\ session' = [session EXCEPT
                         !.messages = recordMessages(SetApproved(@, i, TRUE), <<>>)]
        /\ lastCall' = CallRecord(TRUE, i, session.no,
                                  session.status, <<>>)
  /\ nCalls' = nCalls + 1
  /\ returnTick' = ~returnTick
  /\ ownDone' = TRUE
  /\ UNCHANGED <<traces, pending, nextMsgId, nSessions, agentRuns, rejected>>

\* the ids a caller can pass: every id handed out so far and one never issued
MessageIds == 1..nextMsgId

OrchNext ==
  \/ \E o \in Objectives : startSession(o) /\ UNCHANGED <<edgeVars, appVars>>
  \/ \E id \in MessageIds, a \in BOOLEAN :
       processApprovalNotFound(id, a) /\ UNCHANGED <<edgeVars, appVars>>
  \/ \E id \in MessageIds : processApprovalReject(id) /\ UNCHANGED <<edgeVars, appVars>>
  \/ \E id \in MessageIds : processApprovalSuspend(id) /\ UNCHANGED <<edgeVars, appVars>>
  \/ \E c \in pending : processApprovalResume(c) /\ UNCHANGED <<edgeVars, appVars>>
  \/ \E id \in MessageIds : processApprovalDeploy(id) /\ UNCHANGED <<edgeVars, appVars>>
  \/ \E id \in MessageIds : processApprovalDeployed(id) /\ UNCHANGED <<edgeVars, appVars>>

\* the orchestrator, the edge engine idle
OrchSpecInit == OrchInit /\ EdgeLoaded(0) /\ AppUnmounted

OrchSpec == OrchSpecInit /\ [][OrchNext]_vars

\* the edge engine, the orchestrator idle
EdgeSpecInit == OrchInit /\ EdgeInit /\ AppUnmounted

EdgeSpec == EdgeSpecInit /\ [][EdgeNext]_vars

\* setInterval keeps firing the device loop
EdgeLiveSpec ==
  EdgeSpecInit /\ [][EdgeNext]_vars /\ WF_vars(Tick /\ UNCHANGED orchVars)

\* the classifier on its own: runGeminiNano applied to every probe frame in
\* every fault mode
ClassifyInit ==
  /\ OrchInit
  /\ \E frame \in ProbeFrames, mode \in FaultModes : NanoEntered(frame, mode)
  /\ AppUnmounted

ClassifyNext == runGeminiNano /\ UNCHANGED orchVars

ClassifySpec == ClassifyInit /\ [][ClassifyNext]_vars

\* no sample has been streamed into the app state yet
NoSampleYet == Now = 1

\* the modules are loaded and App is mounted: the gateway has subscribed to
\* the edge device, App to the gateway
GatewayInit ==
  /\ OrchInit
  /\ entropy = 0
  /\ currentDataset = "NORMAL"
  /\ playbackCursor = 0
  /\ faultMode = "NONE"
  /\ currentFrame = NormalFrame(0, 0)
  /\ onHeartbeatCallbacks = <<"gateway">>
  /\ onAlertCallbacks = <<"gateway">>
  /\ onLogCallbacks = <<>>
  /\ nano = Classify(NormalFrame(0, 0), "NONE")
  /\ uplink = <<>>
  /\ logOut = <<>>
  /\ tickLog = <<>>
  /\ streamSubscribers = <<"App">>
  /\ machines = MOCK_MACHINES

\* toggleSimulation: a scenario is started before anything was streamed and
\* stopped (mode NONE) afterwards
startSimulation(selectedScenario) ==
  /\ NoSampleYet
  /\ setFaultMode(selectedScenario)

stopSimulation ==
  /\ ~NoSampleYet
  /\ setFaultMode("NONE")

GatewayNext ==
  \/ \E scenario \in FaultModes :
       startSimulation(scenario) /\ UNCHANGED <<orchVars, appVars>>
  \/ stopSimulation /\ UNCHANGED <<orchVars, appVars>>
  \/ Tick /\ UNCHANGED orchVars

GatewaySpec == GatewayInit /\ [][GatewayNext]_vars

\* setInterval keeps firing the device loop
GatewayLiveSpec ==
  GatewayInit /\ [][GatewayNext]_vars /\ WF_vars(Tick /\ UNCHANGED orchVars)

\* a message list of n entries with ids first, first + 1, ...: the objective
\* message, then search results and plans as approvals of it append them
MessageList(n, first) ==
  [i \in 1..n |->
     IF i = 1 THEN initialMsg(first)
     ELSE IF i % 2 = 0 THEN searchRes(first + i - 1)
     ELSE planMsg(first + i - 1)]

\* the memory service alone: the session holds a message list, nothing has
\* been called
PruneInit ==
  /\ \E n \in 0..MaxMessages, first \in 1..MaxFirstId :
       /\ session = [resetSession(1) EXCEPT !.messages = MessageList(n, first)]
       /\ nextMsgId = first + n
  /\ traces = <<>>
  /\ pending = {}
  /\ nSessions = 1
  /\ nCalls = 0
  /\ lastCall = NoCall
  /\ returnTick = FALSE
  /\ agentRuns = [AIS |-> 0, ATA |-> 0]
  /\ ownDone = FALSE
  /\ rejected = FALSE
  /\ EdgeLoaded(0)
  /\ AppUnmounted

\* this.mem.pruneContext(this.session.messages), its result handed back
pruneContextCall ==
  /\ lastCall.op = "none"
  /\ lastCall' = [NoCall EXCEPT !.op = "pruneContext",
                                !.returned = pruneContext(session.messages)]
  /\ returnTick' = ~returnTick
  /\ UNCHANGED <<session, traces, pending, nextMsgId, nSessions, nCalls,
                 agentRuns, ownDone, rejected>>

PruneNext == pruneContextCall /\ UNCHANGED <<edgeVars, appVars>>

PruneSpec == PruneInit /\ [][PruneNext]_vars

\* ------------------------------------------------------------------ claims

NextStatus(s) ==
  CASE s = "RESEARCHING" -> "PLANNING"
    [] s = "PLANNING" -> "VALIDATING"
    [] OTHER -> "DEPLOYED"

\* the step completes a call (startSession or processApproval)
Completes == returnTick' # returnTick

\* the step completes a processApproval call that found its message
CompletesApproval(approved) ==
  /\ Completes
  /\ lastCall'.op = "processApproval"
  /\ lastCall'.found
  /\ lastCall'.approved = approved

ApprovedHIL ==
  {i \in DOMAIN session.messages :
     session.messages[i].requiresHIL /\ session.messages[i].approved = "true"}

CountRole(role) ==
  Cardinality({i \in DOMAIN session.messages : session.messages[i].role = role})

\* C1: the status of the session changes only when a processApproval(id,
\* true) completes whose id named, when the call was made, a message that
\* required human review and was undecided; and DEPLOYED is reached only
\* with three distinct HIL messages approved.
C1_ApprovalGate ==
  /\ [][(session'.no = session.no /\ session'.status # session.status) =>
          /\ CompletesApproval(TRUE)
          /\ lastCall'.targetHIL
          /\ ~lastCall'.targetDecided]_vars
  /\ [](session.status = "DEPLOYED" => Cardinality(ApprovedHIL) >= 3)

\* C2: on behalf of one session each sub-agent is invoked at most once and
\* its message appended at most once, and at most one processApproval call
\* of the session is suspended at a time.
C2_SingleInFlight ==
  /\ agentRuns.AIS <= 1
  /\ agentRuns.ATA <= 1
  /\ CountRole("AIS") <= 1
  /\ CountRole("ATA") <= 1
  /\ Cardinality({c \in pending : c.call.sess = session.no}) <= 1

\* C3: from the return of startSession until a processApproval on one of the
\* new session's own messages completes, the status is RESEARCHING and the
\* message list is the one initial Orchestrator message with requiresHIL.
C3_FreshSession ==
  (session.no > 0 /\ ~ownDone) =>
    /\ session.status = "RESEARCHING"
    /\ Len(session.messages) = 1
    /\ session.messages[1].role = "AIO"
    /\ session.messages[1].content = "Objective Received"
    /\ session.messages[1].requiresHIL

\* C4: within one session every change of the status made by a call of that
\* session is one step forward along RESEARCHING, PLANNING, VALIDATING,
\* DEPLOYED (DEPLOYED is never left), and an approval made in DEPLOYED
\* returns no messages.
C4_Monotone ==
  [][/\ (session'.no = session.no /\ lastCall'.sess = session.no) =>
          \/ session'.status = session.status
          \/ /\ session.status # "DEPLOYED"
             /\ session'.status = NextStatus(session.status)
     /\ (CompletesApproval(TRUE) /\ lastCall'.entryStatus = "DEPLOYED") =>
          lastCall'.returned = <<>>]_vars

\* C5: a processApproval(id, false) on a message of the session leaves the
\* status unchanged, invokes no sub-agent and returns exactly the
\* Orchestrator cancellation message, which has requiresHIL = false.
C5_RejectShortCircuit ==
  [][CompletesApproval(FALSE) =>
       /\ session'.status = session.status
       /\ session'.no = session.no
       /\ agentRuns' = agentRuns
       /\ pending' = pending
       /\ Len(lastCall'.returned) = 1
       /\ lastCall'.returned[1].role = "AIO"
       /\ lastCall'.returned[1].content = "Operation cancelled by Supervisor"
       /\ ~lastCall'.returned[1].requiresHIL]_vars

\* C5 witness: a rejection processed in a session that had reached VALIDATING
C5_Witness ==
  /\ lastCall.op = "processApproval"
  /\ lastCall.found
  /\ ~lastCall.approved
  /\ lastCall.entryStatus = "VALIDATING"
  /\ session.status = "VALIDATING"
  /\ Len(lastCall.returned) = 1

\* C6: a processApproval call made after a rejection was processed in the
\* session neither changes the session's status nor returns stage messages.
C6_RejectionTerminal ==
  [][(/\ Completes
      /\ lastCall'.op = "processApproval"
      /\ lastCall'.afterReject
      /\ lastCall'.sess = session.no
      /\ session'.no = session.no) =>
       /\ session'.status = session.status
       /\ \A k \in DOMAIN lastCall'.returned :
            lastCall'.returned[k].content = "Operation cancelled by Supervisor"]_vars

TickStep == Len(tickLog') = Len(tickLog) + 1

\* the kinds of the events a tick-log entry published
IsAlertTick(e) == e.out = <<"ALERT">>
IsHeartbeatTick(e) == e.out = <<"HEARTBEAT">>

\* C8: alerts are never throttled.  On every tick whose classifier score
\* exceeds 0.7, whatever the cursor is and whatever mode switches came before,
\* exactly an Alert is published, carrying the telemetry of the frame read on
\* that tick and the classifier result of that frame; hence a run of
\* consecutive high-score ticks publishes one Alert per tick.
C8_AlertsNeverThrottled ==
  /\ [][TickStep /\ nano'.anomalyScore > AlertThreshold =>
          LET frame == DATASETS(currentDataset, playbackCursor)
          IN /\ Len(uplink') = 1
             /\ uplink'[1].event.type = "ALERT"
             /\ uplink'[1].event.nanoAnalysis = Classify(frame, faultMode)
             /\ uplink'[1].event.nanoAnalysis.anomalyScore > AlertThreshold
             /\ uplink'[1].event.rawTelemetry.temperature = frame.temp
             /\ uplink'[1].event.rawTelemetry.vibration = frame.vib
             /\ uplink'[1].event.rawTelemetry.audioDecibels = frame.audio
             /\ uplink'[1].event.rawTelemetry.networkLatency = frame.latency
             /\ uplink'[1].event.rawTelemetry.packetLoss = frame.packetLoss
             /\ uplink'[1].event.rawTelemetry.networkTraffic.command
                  = frame.networkLog.command]_vars
  /\ [](\A k \in DOMAIN tickLog :
          tickLog[k].score > AlertThreshold => IsAlertTick(tickLog[k]))

\* ten consecutive high-score ticks (IT_ATTACK frames 11..20), each with its Alert
C8_Witness ==
  /\ faultMode = "IT_ATTACK"
  /\ Len(tickLog) >= 21
  /\ \A k \in 12..21 :
        /\ tickLog[k].score > AlertThreshold
        /\ IsAlertTick(tickLog[k])
  /\ Len(uplink) = 1
  /\ uplink[1].event.type = "ALERT"

\* C9 as stated: on a tick whose score is at most 0.7 a Heartbeat is published
\* if and only if tickIndex mod 5 = 0, ticks being counted from 0 at the start
\* of playback; so of ten low-score ticks from cursor 0 exactly ticks 0 and 5
\* publish a Heartbeat.
C9_SampledOnTickIndex ==
  \A k \in DOMAIN tickLog :
    tickLog[k].score <= AlertThreshold =>
      (IsHeartbeatTick(tickLog[k]) <=> (k - 1) % 5 = 0)

\* C9 amended: on a tick whose score is at most 0.7 a Heartbeat is published
\* if and only if the cursor after that tick's advance is divisible by 5, that
\* is (index of the frame read + 1) mod length mod 5 = 0, and it carries the
\* cpu load and temperature of the frame read; of ten low-score ticks from
\* cursor 0 exactly two publish a Heartbeat, the ticks 4 and 9 (counted from 0).
C9_SampledOnAdvancedCursor ==
  /\ [][TickStep /\ nano'.anomalyScore <= AlertThreshold =>
          LET frame == DATASETS(currentDataset, playbackCursor)
              advanced == (playbackCursor + 1) % DatasetLength
          IN /\ advanced % 5 # 0 => uplink' = <<>>
             /\ advanced % 5 = 0 =>
                  /\ Len(uplink') = 1
                  /\ uplink'[1].event.type = "HEARTBEAT"
                  /\ uplink'[1].event.cpuLoad = frame.cpu
                  /\ uplink'[1].event.averageTemp = frame.temp]_vars
  /\ [](\A k \in DOMAIN tickLog :
          tickLog[k].score <= AlertThreshold =>
            /\ Len(tickLog[k].out) <= 1
            /\ IsHeartbeatTick(tickLog[k]) <=> (tickLog[k].read + 1) % 5 = 0)
  /\ []((Len(tickLog) >= 10 /\ \A k \in 1..10 : tickLog[k].score <= AlertThreshold)
         => {k \in 1..10 : IsHeartbeatTick(tickLog[k])} = {5, 10})

\* ten low-score ticks from cursor 0, the fifth and the tenth with a Heartbeat
C9_Witness ==
  /\ Len(tickLog) = 10
  /\ playbackCursor = 10
  /\ \A k \in 1..10 :
        /\ tickLog[k].score <= AlertThreshold
        /\ tickLog[k].read = k - 1
        /\ IsHeartbeatTick(tickLog[k]) <=> k \in {5, 10}
  /\ Len(uplink) = 1
  /\ uplink[1].event.type = "HEARTBEAT"

\* C10: on every tick at most one uplink event is published: never both a
\* Heartbeat and an Alert, never two of either kind.
C10_AtMostOneEvent ==
  /\ Len(uplink) <= 1
  /\ \A k \in DOMAIN tickLog : Len(tickLog[k].out) <= 1

\* a run that has seen a silent tick, a Heartbeat tick and an Alert tick
C10_Witness ==
  /\ \E k \in DOMAIN tickLog : tickLog[k].out = <<>>
  /\ \E k \in DOMAIN tickLog : IsHeartbeatTick(tickLog[k])
  /\ \E k \in DOMAIN tickLog : IsAlertTick(tickLog[k])
  /\ Len(uplink) = 1

\* C11 as stated: after a tick the current frame is the one at the new cursor
\* position, currentFrame = dataset[cursor].
C11_FrameAtNewCursor ==
  Len(tickLog) > 0 => currentFrame = DATASETS(currentDataset, playbackCursor)

\* C11 amended: each tick makes the frame at the cursor position it starts
\* from the current frame and then advances the cursor by one modulo the
\* dataset length, so after a tick currentFrame = dataset[(cursor - 1) mod L];
\* the frame classified on that tick is the one at the old position.
C11_FrameAtOldCursor ==
  /\ [][TickStep =>
          /\ currentFrame' = DATASETS(currentDataset, playbackCursor)
          /\ playbackCursor' = (playbackCursor + 1) % DatasetLength
          /\ nano' = Classify(DATASETS(currentDataset, playbackCursor), faultMode)
          /\ tickLog'[Len(tickLog')].read = playbackCursor]_vars
  /\ [](Len(tickLog) > 0 =>
          currentFrame =
            DATASETS(currentDataset,
                     (playbackCursor + DatasetLength - 1) % DatasetLength))

\* two ticks from cursor 0: frame 1 is current, the cursor is at 2, and the
\* frames at the two positions differ
C11_Witness ==
  /\ Len(tickLog) = 2
  /\ playbackCursor = 2
  /\ currentFrame = DATASETS(currentDataset, 1)
  /\ currentFrame # DATASETS(currentDataset, 2)

\* C12: in every reachable state 0 <= playbackCursor < length of the active
\* dataset, and every tick read a frame inside the dataset.
C12_CursorInRange ==
  /\ playbackCursor \in 0..(DatasetLen(currentDataset) - 1)
  /\ \A k \in DOMAIN tickLog :
        tickLog[k].read \in 0..(DatasetLen(currentDataset) - 1)

\* the last frame of an attack dataset was read and the cursor wrapped
C12_Witness ==
  /\ faultMode = "OT_ATTACK"
  /\ Len(tickLog) = DatasetLength
  /\ tickLog[DatasetLength].read = DatasetLength - 1
  /\ playbackCursor = 0

\* C13: L ticks from cursor 0 with no mode change in between bring the cursor
\* back to 0, and tick L+1 reads the frame that tick 1 read.
C13_Wraparound ==
  /\ [](Len(tickLog) = DatasetLength => playbackCursor = 0)
  /\ [](Len(tickLog) > DatasetLength =>
          tickLog[DatasetLength + 1].read = tickLog[1].read)
  /\ [][TickStep /\ Len(tickLog) = DatasetLength =>
          currentFrame' = DATASETS(currentDataset, tickLog[1].read)]_vars

\* tick L+1 has just read frame 0 again
C13_Witness ==
  /\ Len(tickLog) = DatasetLength + 1
  /\ tickLog[1].read = 0
  /\ tickLog[DatasetLength + 1].read = 0
  /\ currentFrame = DATASETS(currentDataset, 0)
  /\ playbackCursor = 1

\* a step that is a call of setFaultMode (a call that changes nothing is a
\* stuttering step)
SwitchStep ==
  /\ ~TickStep
  /\ \/ <<faultMode, currentDataset, playbackCursor, tickLog>>'
          # <<faultMode, currentDataset, playbackCursor, tickLog>>
     \/ logOut' # <<>> /\ logOut' # logOut

\* C14: after setFaultMode(mode) the cursor is 0 and the mounted dataset is
\* the one of that mode (NONE -> NORMAL, the three fault modes -> their own
\* dataset), also when the mode is the one the device was in, and the next
\* tick reads frame 0 of that dataset.
C14_ModeSwitch ==
  /\ [][SwitchStep =>
          /\ playbackCursor' = 0
          /\ tickLog' = <<>>
          /\ currentDataset' = (IF faultMode' = "NONE" THEN "NORMAL" ELSE faultMode')
          /\ \A k \in DOMAIN logOut' : logOut'[k].line = MountLine(faultMode')]_vars
  /\ [][TickStep /\ tickLog = <<>> =>
          /\ tickLog'[1].read = 0
          /\ currentFrame' =
               DATASETS(IF faultMode = "NONE" THEN "NORMAL" ELSE faultMode, 0)
          /\ playbackCursor' = 1]_vars

\* setFaultMode('IT_ATTACK') has just returned in a device that was already
\* in IT_ATTACK and had played 13 frames of it
C14_Witness ==
  /\ tickLog = <<>>
  /\ Len(logOut) = 1
  /\ logOut[1].line = MountLine("IT_ATTACK")
  /\ logOut[1].state.currentDataset = "IT_ATTACK"
  /\ currentFrame = DATASETS("IT_ATTACK", 12)
  /\ faultMode = "IT_ATTACK"
  /\ playbackCursor = 0
  /\ currentDataset = "IT_ATTACK"

\* C15: mode switches are atomic.  No callback runs on a half-switched
\* EdgeState (a fault mode with the dataset of another mode mounted), and
\* whenever a tick classifies a frame, the frame was read from the dataset of
\* the fault mode the classifier uses on that tick.
C15_AtomicSwitch ==
  /\ [](\A k \in DOMAIN logOut :
          logOut[k].state.currentDataset = DatasetOf(logOut[k].state.faultMode))
  /\ [][TickStep =>
          /\ currentDataset = DatasetOf(faultMode)
          /\ currentFrame' = DATASETS(DatasetOf(faultMode), playbackCursor)]_vars

\* runGeminiNano has classified the current frame
Classified == nano.inferenceTimeMs > 0

Rule1(f) == f.packetLoss > 50 /\ f.temp < 600
Rule2(f) == f.networkLog.isMalicious \/ (f.temp > 750 /\ f.latency > 1000)

\* C16: rule 1 precedence.  Every frame with packetLoss > 5 and temperature
\* < 60 is classified NETWORK_DDOS with score 0.92 and exactly the alerts
\* "High Packet Loss Detected", "Network Latency Spike", in every fault mode
\* and whatever its malicious flag, latency, vibration, audio and pressure.
C16_Rule1Precedence ==
  Classified /\ currentFrame.packetLoss > 50 /\ currentFrame.temp < 600 =>
    /\ nano.detectedLabel = "NETWORK_DDOS"
    /\ nano.anomalyScore = 92
    /\ nano.specificAlerts = <<"High Packet Loss Detected", "Network Latency Spike">>

\* a frame that matches rule 1, rule 2 and rule 3 at once, classified
\* NETWORK_DDOS
C16_Witness ==
  /\ Classified
  /\ Rule1(currentFrame)
  /\ currentFrame.networkLog.isMalicious
  /\ faultMode = "MECHANICAL_FAIL"
  /\ currentFrame.vib > 50
  /\ nano.detectedLabel = "NETWORK_DDOS"

\* C17: the mechanical rule is mode-gated.  MECHANICAL_WEAR is returned only
\* in fault mode MECHANICAL_FAIL; a frame with vibration > 5 that matches
\* neither rule 1 nor rule 2, classified in another mode, is NORMAL with score
\* 0.1 and no alerts, and no Alert is published for it.
C17_MechanicalGated ==
  Classified =>
    /\ nano.detectedLabel = "MECHANICAL_WEAR" => faultMode = "MECHANICAL_FAIL"
    /\ (/\ currentFrame.vib > 50
        /\ ~Rule1(currentFrame)
        /\ ~Rule2(currentFrame)
        /\ faultMode # "MECHANICAL_FAIL") =>
          /\ nano.detectedLabel = "NORMAL"
          /\ nano.anomalyScore = 10
          /\ nano.specificAlerts = <<>>
          /\ \A k \in DOMAIN uplink : uplink[k].event.type = "HEARTBEAT"

\* a frame with vibration 10.0, loud and at low pressure, classified NORMAL in
\* mode NONE and answered with a Heartbeat
C17_Witness ==
  /\ Classified
  /\ faultMode = "NONE"
  /\ currentFrame.vib = 100
  /\ currentFrame.audio > 750
  /\ currentFrame.pressure < 1800
  /\ nano.detectedLabel = "NORMAL"
  /\ Len(uplink) = 1
  /\ uplink[1].event.type = "HEARTBEAT"

\* a step that registers a callback
SubscribeStep ==
  <<onHeartbeatCallbacks, onAlertCallbacks, onLogCallbacks>>'
    # <<onHeartbeatCallbacks, onAlertCallbacks, onLogCallbacks>>

\* list is callbacks, or callbacks with one registration added at its end
Registered(callbacks, list) ==
  \/ list = callbacks
  \/ Len(list) = Len(callbacks) + 1 /\ SubSeq(list, 1, Len(callbacks)) = callbacks

Channels ==
  {"temperature", "vibration", "current", "audioDecibels", "networkLatency",
   "networkTraffic"}

History(ch) == machines["agv-01"].sensors[ch]

\* number of samples streamed so far
Streamed == Now - 1

\* C19: rolling window.  After any sequence of Heartbeats and Alerts streamed
\* through the gateway every channel history of agv-01 holds at most 20
\* entries, the most recent ones in arrival order (what is left of the
\* initial history, then the streamed samples); a Heartbeat appends nothing
\* and an Alert appended to a full window evicts exactly the oldest entry.
C19_RollingWindow ==
  /\ [](\A ch \in Channels :
          /\ Len(History(ch)) <= 20
          /\ \A k \in DOMAIN History(ch) :
                /\ History(ch)[k].timestamp = Streamed - Len(History(ch)) + k
                /\ History(ch)[k].timestamp <= 0 =>
                     History(ch)[k] =
                       MOCK_MACHINES["agv-01"].sensors[ch][History(ch)[k].timestamp + 20])
  /\ [][TickStep /\ IsAlertTick(tickLog'[Len(tickLog')]) =>
          /\ \A ch \in Channels :
                /\ Len(History(ch)') = 20
                /\ Len(History(ch)) = 20 =>
                     SubSeq(History(ch)', 1, 19) = Tail(History(ch))
                /\ History(ch)'[20].timestamp = Streamed + 1
          /\ History("temperature")'[20].value = currentFrame'.temp
          /\ History("vibration")'[20].value = currentFrame'.vib
          /\ History("audioDecibels")'[20].value = currentFrame'.audio
          /\ History("networkLatency")'[20].value = currentFrame'.latency
          /\ History("networkTraffic")'[20].command = currentFrame'.networkLog.command]_vars
  /\ [][~(TickStep /\ IsAlertTick(tickLog'[Len(tickLog')])) =>
          \A ch \in Channels : History(ch)' = History(ch)]_vars

\* 25 samples streamed: the initial history is gone and the windows hold the
\* samples 6..25
C19_Witness ==
  /\ Streamed = 25
  /\ \A ch \in Channels :
        /\ Len(History(ch)) = 20
        /\ History(ch)[1].timestamp = 6
        /\ History(ch)[20].timestamp = 25
  /\ machines["agv-01"].status = "CRITICAL"

\* C20: trace ordering.  Spans are finalized in the order they were opened,
\* for every interleaving of startSession and processApproval calls: a span
\* that is finalized has no span opened before it that is still PENDING_HIL.
C20_TraceOrder ==
  \A i, j \in DOMAIN traces :
    (i < j /\ traces[j].status # "PENDING_HIL") => traces[i].status # "PENDING_HIL"

\* C21: context pruning.  pruneContext returns a list of at most 20 messages
\* unchanged; a longer list comes back as exactly 11 entries, its first
\* message followed by its last 10 in their order; of 25 messages, message 0
\* and messages 15..24 remain.
C21_PruneContext ==
  lastCall.op = "pruneContext" =>
    LET input == session.messages
        out == lastCall.returned
        n == Len(input)
    IN /\ n <= 20 => out = input
       /\ n > 20 =>
            /\ Len(out) = 11
            /\ out[1] = input[1]
            /\ \A k \in 1..10 : out[1 + k] = input[n - 10 + k]
       /\ n = 25 =>
            [k \in 1..Len(out) |-> out[k].id - input[1].id] =
              <<0, 15, 16, 17, 18, 19, 20, 21, 22, 23, 24>>

\* a list of 25 messages was handed to pruneContext and came back with 11
C21_Witness ==
  /\ lastCall.op = "pruneContext"
  /\ Len(session.messages) = 25
  /\ Len(lastCall.returned) = 11

\* C22: the message list is append-only and each message is decided once.
\* Between two startSession calls every message keeps its place and nothing
\* is removed, and an approved flag that was written is never written again
\* with another value.
C22_AppendOnlyDecidedOnce ==
  [][session'.no = session.no =>
       /\ Len(session'.messages) >= Len(session.messages)
       /\ \A i \in DOMAIN session.messages :
            /\ session'.messages[i].id = session.messages[i].id
            /\ session.messages[i].approved # "undefined" =>
                 session'.messages[i].approved = session.messages[i].approved]_vars

\* DATASETS[name][i] as another execution, whose module load drew seed, holds it
DatasetsOfRun(seed, name, i) ==
  CASE name = "NORMAL" -> NormalFrame(seed, i)
    [] name = "IT_ATTACK" -> ITAttackFrame(seed, i)
    [] name = "MECHANICAL_FAIL" -> MechanicalFrame(seed, i)
    [] name = "OT_ATTACK" -> OTAttackFrame(seed, i)

\* C23: determinism of playback.  The frame a tick returns for a scenario and
\* a cursor position is the frame every other execution of the program
\* returns for that scenario and position.
C23_DeterministicPlayback ==
  Len(tickLog) > 0 =>
    \A seed \in EntropyValues :
      currentFrame =
        DatasetsOfRun(seed, currentDataset,
                      (playbackCursor + DatasetLength - 1) % DatasetLength)

\* String.prototype.includes / toContain on the attachment names the edge
\* device produces: the pairs (name, part) for which it holds
FileNameContains(name, part) ==
  <<name, part>> \in
    {<<"net_traffic.pcap", "net_traffic">>, <<"net_traffic.pcap", "pcap">>,
     <<"normal_rec.wav", "normal">>, <<"syslog.log", "syslog">>}

\* the Alerts of the last tick that were handed to a callback
DeliveredAlerts ==
  {uplink[k].event : k \in {j \in DOMAIN uplink :
                              uplink[j].event.type = "ALERT" /\ uplink[j].to # <<>>}}

\* C24: IT-attack scenario.  Every Alert delivered while the mode is IT_ATTACK
\* has label NETWORK_DDOS, a raw network latency above 100 ms and a pcapDump
\* attachment whose name contains 'ddos'.
C24_ITAttackAlerts ==
  faultMode = "IT_ATTACK" =>
    \A a \in DeliveredAlerts :
      /\ a.nanoAnalysis.detectedLabel = "NETWORK_DDOS"
      /\ a.rawTelemetry.networkLatency > 1000
      /\ FileNameContains(a.fileAttachments.pcapDump, "ddos")

\* C25: mechanical-failure scenario.  Every Alert delivered while the mode is
\* MECHANICAL_FAIL, the first one included, has label MECHANICAL_WEAR and a
\* raw audio level above 80 dB.
C25_MechanicalAlerts ==
  faultMode = "MECHANICAL_FAIL" =>
    \A a \in DeliveredAlerts :
      /\ a.nanoAnalysis.detectedLabel = "MECHANICAL_WEAR"
      /\ a.rawTelemetry.audioDecibels > 800

\* a processApproval call that found its message is entered in this step
FoundEntry ==
  /\ nCalls' # nCalls
  /\ \/ pending' # pending
     \/ returnTick' # returnTick /\ lastCall'.found

\* a suspended processApproval call runs its continuation in this step
ResumeStep == \E c \in pending : pending' = pending \ {c}

\* C26: trace finalization.  The spans still PENDING_HIL are exactly those of
\* the calls in flight, so with no call in flight every span is closed;
\* rejection spans end with FAILURE and all others with SUCCESS; a completed
\* startSession and a processApproval that found its message in a status
\* other than DEPLOYED each add exactly one span, and a continuation closes
\* the span its call opened without adding one.
C26_TraceFinalization ==
  /\ []({i \in DOMAIN traces : traces[i].status = "PENDING_HIL"} =
          {c.traceId : c \in pending})
  /\ [](\A i \in DOMAIN traces :
          traces[i].status # "PENDING_HIL" =>
            traces[i].status = (IF traces[i].action = "Handle Rejection"
                                  THEN "FAILURE" ELSE "SUCCESS"))
  /\ [][/\ nSessions' # nSessions => Len(traces') = Len(traces) + 1
        /\ (FoundEntry /\ session.status # "DEPLOYED") =>
              Len(traces') = Len(traces) + 1
        /\ ResumeStep =>
              /\ Len(traces') = Len(traces)
              /\ \A c \in pending \ pending' :
                    traces'[c.traceId].status = "SUCCESS"]_vars

\* no call is in flight after an approval that was suspended has completed
\* and a rejection was processed: their spans are closed
C26_Witness ==
  /\ pending = {}
  /\ \E i, j \in DOMAIN traces :
       /\ traces[i].agent = "AIS" /\ traces[i].status = "SUCCESS"
       /\ traces[j].action = "Handle Rejection" /\ traces[j].status = "FAILURE"

\* a processApproval call whose id named no message of the session returns
\* in this step
NotFoundReturn ==
  /\ nCalls' # nCalls
  /\ returnTick' # returnTick
  /\ ~lastCall'.found

\* C27: an unknown message id is a no-op.  A processApproval whose id names
\* no message of the current session returns an empty list and leaves the
\* session (status, messages, approved flags) and the traces as they were.
C27_UnknownIdNoOp ==
  [][NotFoundReturn =>
       /\ lastCall'.returned = <<>>
       /\ session' = session
       /\ traces' = traces
       /\ pending' = pending]_vars

\* a call with an id of no message of the second session has returned while
\* that session was in PLANNING
C27_Witness ==
  /\ lastCall.op = "processApproval"
  /\ ~lastCall.found
  /\ lastCall.returned = <<>>
  /\ session.no = 2
  /\ session.status = "PLANNING"
  /\ Len(session.messages) = 3

\* the Heartbeats of the last tick that were handed to a callback
DeliveredHeartbeats ==
  {uplink[k].event : k \in {j \in DOMAIN uplink :
                              uplink[j].event.type = "HEARTBEAT" /\ uplink[j].to # <<>>}}

\* C28: recovery to OK.  In mode NONE every frame classifies NORMAL and no
\* Alert is published; a Heartbeat published there has deviceStatus ONLINE and
\* averageTemp below 55 and sets agv-01 to OK; five ticks after the switch to
\* NONE agv-01 is OK, and with no further mode change a CRITICAL agv-01 leads
\* to such a Heartbeat and status OK; no step changes another machine.
C28_RecoveryToOK ==
  /\ [][(TickStep /\ faultMode = "NONE") =>
          /\ nano'.detectedLabel = "NORMAL"
          /\ \A k \in DOMAIN uplink' :
                /\ uplink'[k].event.type = "HEARTBEAT"
                /\ uplink'[k].event.deviceStatus = "ONLINE"
                /\ uplink'[k].event.averageTemp < 550
                /\ machines'["agv-01"].status = "OK"]_vars
  /\ [](faultMode = "NONE" /\ Len(tickLog) >= HeartbeatEvery =>
          machines["agv-01"].status = "OK")
  /\ [][\A id \in DOMAIN machines \ {"agv-01"} : machines'[id] = machines[id]]_vars
  /\ (<>[][~SwitchStep]_vars =>
        ((faultMode = "NONE" /\ machines["agv-01"].status = "CRITICAL")
           ~> (DeliveredHeartbeats # {} /\ machines["agv-01"].status = "OK")))

\* agv-01, which Alerts had set to CRITICAL and filled with samples, is OK
\* again after a Heartbeat in mode NONE
C28_Witness ==
  /\ faultMode = "NONE"
  /\ ~NoSampleYet
  /\ DeliveredHeartbeats # {}
  /\ machines["agv-01"].status = "OK"
  /\ machines["agv-01"].latestEdgeDiagnosis = "NORMAL"

\* a tick whose anomaly score is at most 0.7
LowScoreTick == TickStep /\ nano'.anomalyScore <= AlertThreshold

\* the last step published a Heartbeat
HeartbeatPublished ==
  \E k \in DOMAIN uplink : uplink[k].event.type = "HEARTBEAT"

\* C29: Heartbeats are periodic under mode switching.  With infinitely many
\* low-score ticks, setFaultMode calls interleaved between them or not,
\* infinitely many Heartbeats are published.
C29_HeartbeatsRecur ==
  []<><<LowScoreTick>>_vars => []<>HeartbeatPublished

\* the messages waiting at the HIL gate: requiresHIL and not yet decided
WaitingForApproval ==
  {i \in DOMAIN session.messages :
     /\ session.messages[i].requiresHIL
     /\ session.messages[i].approved = "undefined"}

\* C30: single outstanding approval gate.  In a started session with no call
\* in flight at most one message waits for approval; one waits exactly when
\* the status is RESEARCHING, PLANNING or VALIDATING and no rejection was
\* processed; in DEPLOYED none waits.
C30_SingleGate ==
  (session.no > 0 /\ pending = {}) =>
    /\ Cardinality(WaitingForApproval) <= 1
    /\ WaitingForApproval # {} <=>
         (session.status \in {"RESEARCHING", "PLANNING", "VALIDATING"} /\ ~rejected)
    /\ session.status = "DEPLOYED" => WaitingForApproval = {}

====
